---- MODULE Spec2Model ----
(***************************************************************************)
(* The App component of src/App.tsx: its useState cells, the two           *)
(* object-URL effects, the style handlers, handleGenerate with its         *)
(* outstanding generateStyledPhotos calls, and what the last commit handed *)
(* to the two FileUpload previews.                                         *)
(*                                                                         *)
(* React's scheduling as modelled:                                         *)
(*  - a DOM event handler runs to completion and its batched updates are   *)
(*    rendered and committed before the next DOM event is dispatched, so a *)
(*    handler and the render of its updates are one step;                  *)
(*  - passive effects (useEffect) run after that commit, as a step of      *)
(*    their own, and before any further DOM event is handled;              *)
(*  - a setState made inside an effect is rendered by a later render.      *)
(***************************************************************************)
EXTENDS Integers, Sequences, FiniteSets, TLC

\* ---------------------------------------------------------------- bounds
MaxFiles == 3
MaxGen == 2
MaxImages == 2

\* ------------------------------------------------------------- constants
Null == 0
NoError == "null"
PleaseUpload == "Please upload a product photo first."
GenerationFailed == "Generation failed. Please try again with different inputs."
Generating == "Generating... please wait"
DoneMessage == "Done! Here are your styled product photos."

Presets == {1, 2}
StyleModes == {"preset", "reference"}
Images == {"a", "b"}

RECURSIVE SeqsUpTo(_)
SeqsUpTo(n) ==
    IF n = 0 THEN {<<>>}
    ELSE LET shorter == SeqsUpTo(n - 1)
         IN  shorter \cup {Append(s, i) : s \in {t \in shorter : Len(t) = n - 1}, i \in Images}

\* what a settled generateStyledPhotos call may return
Responses == SeqsUpTo(MaxImages)

VARIABLES
    productPhoto, referencePhoto, selectedPreset, styleMode,
    generatedImages, isLoading, statusMessage, error,
    productPhotoUrl, referencePhotoUrl,
    productEffect, referenceEffect,
    urls, rendered, mounted, pending, outcomes, files, lastOp

vars == <<productPhoto, referencePhoto, selectedPreset, styleMode,
          generatedImages, isLoading, statusMessage, error,
          productPhotoUrl, referencePhotoUrl,
          productEffect, referenceEffect,
          urls, rendered, mounted, pending, outcomes, files, lastOp>>

photoVars == <<productPhoto, referencePhoto, selectedPreset, styleMode>>
resultVars == <<generatedImages, isLoading, statusMessage, error>>
urlVars == <<productPhotoUrl, referencePhotoUrl, productEffect, referenceEffect, urls>>

\* the step just taken: "handleGenerate", "resolve" or "reject" for a step of
\* handleGenerate, with the settled call's id and the list the service
\* returned, and "other" for any other step
Op(name) == [op |-> name, id |-> 0, images |-> <<>>]

\* ------------------------------------------------------------ object URLs
\* URL.createObjectURL: a fresh URL, Len(urls) + 1, owned by the slot
CreateObjectURL(us, slot) == Append(us, [slot |-> slot, revokes |-> 0])

\* URL.revokeObjectURL(u)
RevokeObjectURL(us, u) == [us EXCEPT ![u].revokes = @ + 1]

Live(slot) == {u \in 1 .. Len(urls) : urls[u].slot = slot /\ urls[u].revokes = 0}

\* ---------------------------------------------------------------- render
\* the previewUrl props of the two FileUploads; the reference FileUpload is
\* rendered in reference mode only
RenderOutput ==
    [product |-> productPhotoUrl,
     reference |-> IF styleMode = "reference" THEN referencePhotoUrl ELSE Null]

\* the render and commit that follow a batch of state updates
Commit == rendered' = IF mounted THEN RenderOutput' ELSE rendered

\* an effect whose dependency differs from the one it last ran with
EffectsPending ==
    \/ productEffect.dep # productPhoto
    \/ referenceEffect.dep # referencePhoto

\* a DOM event can be dispatched
Interactive == mounted /\ ~EffectsPending

Init ==
    /\ productPhoto = Null
    /\ referencePhoto = Null
    /\ selectedPreset = Null
    /\ styleMode = "preset"
    /\ generatedImages = <<>>
    /\ isLoading = FALSE
    /\ statusMessage = ""
    /\ error = NoError
    /\ productPhotoUrl = Null
    /\ referencePhotoUrl = Null
    /\ productEffect = [dep |-> Null, url |-> Null]
    /\ referenceEffect = [dep |-> Null, url |-> Null]
    /\ urls = <<>>
    /\ rendered = [product |-> Null, reference |-> Null]
    /\ mounted = TRUE
    /\ pending = {}
    /\ outcomes = <<>>
    /\ files = 0
    /\ lastOp = Op("other")

\* ---------------------------------------------------------------- effects
\* the cleanup an effect run returned: () => URL.revokeObjectURL(url)
EffectCleanupMissing(eff, us) == us

EffectCleanup(eff, us) ==
    IF eff.url = Null THEN us ELSE RevokeObjectURL(us, eff.url)

\* one useEffect after a commit: skipped when its dependency is unchanged;
\* otherwise the previous cleanup, then the body. set: the body called the
\* URL setter with url
EffectRun(eff, file, slot, us) ==
    IF eff.dep = file
    THEN [urls |-> us, eff |-> eff, set |-> FALSE, url |-> Null]
    ELSE LET cleaned == EffectCleanup(eff, us)
             created == CreateObjectURL(cleaned, slot)
         IN  IF file # Null
             THEN [urls |-> created, eff |-> [dep |-> file, url |-> Len(created)],
                   set |-> TRUE, url |-> Len(created)]
             ELSE [urls |-> cleaned, eff |-> [dep |-> Null, url |-> Null],
                   set |-> TRUE, url |-> Null]

\* the passive effects of the last commit
RunEffects ==
    /\ mounted
    /\ EffectsPending
    /\ LET p == EffectRun(productEffect, productPhoto, "product", urls)
           r == EffectRun(referenceEffect, referencePhoto, "reference", p.urls)
       IN  /\ urls' = r.urls
           /\ productEffect' = p.eff
           /\ referenceEffect' = r.eff
           /\ productPhotoUrl' = IF p.set THEN p.url ELSE productPhotoUrl
           /\ referencePhotoUrl' = IF r.set THEN r.url ELSE referencePhotoUrl
    /\ UNCHANGED photoVars
    /\ UNCHANGED resultVars
    /\ UNCHANGED <<rendered, mounted, pending, outcomes, files>>
    /\ lastOp' = Op("other")

\* the render of the URL an effect set
Render ==
    /\ Interactive
    /\ rendered # RenderOutput
    /\ rendered' = RenderOutput
    /\ UNCHANGED photoVars
    /\ UNCHANGED resultVars
    /\ UNCHANGED urlVars
    /\ UNCHANGED <<mounted, pending, outcomes, files>>
    /\ lastOp' = Op("other")

\* the component unmounts: every effect's cleanup runs
Unmount ==
    /\ Interactive
    /\ mounted' = FALSE
    /\ urls' = EffectCleanup(referenceEffect, EffectCleanup(productEffect, urls))
    /\ rendered' = [product |-> Null, reference |-> Null]
    /\ UNCHANGED photoVars
    /\ UNCHANGED resultVars
    /\ UNCHANGED <<productPhotoUrl, referencePhotoUrl, productEffect, referenceEffect>>
    /\ UNCHANGED <<pending, outcomes, files>>
    /\ lastOp' = Op("other")

\* ------------------------------------------------------------ file inputs
\* what a FileUpload hands to onFileSelect: a File the user just picked, a
\* new object (files counts them), or null when the current file is removed
Selectable(current) ==
    (IF files < MaxFiles THEN {files + 1} ELSE {})
        \cup (IF current # Null THEN {Null} ELSE {})

Picked(f) == IF f = Null THEN files ELSE files + 1

\* FileUpload product-upload: onFileSelect={setProductPhoto}
SelectProductPhoto(f) ==
    /\ Interactive
    /\ files' = Picked(f)
    /\ productPhoto' = f
    /\ UNCHANGED <<referencePhoto, selectedPreset, styleMode>>
    /\ UNCHANGED resultVars
    /\ UNCHANGED urlVars
    /\ UNCHANGED <<mounted, pending, outcomes>>
    /\ lastOp' = Op("other")
    /\ Commit

HandleSetReferencePhotoKeepsPreset(file) ==
    /\ referencePhoto' = file
    /\ UNCHANGED selectedPreset

HandleSetReferencePhoto(file) ==
    /\ referencePhoto' = file
    /\ selectedPreset' = IF file # Null THEN Null ELSE selectedPreset

\* FileUpload ref-upload, rendered in reference mode
SelectReferencePhoto(f) ==
    /\ Interactive
    /\ styleMode = "reference"
    /\ files' = Picked(f)
    /\ HandleSetReferencePhoto(f)
    /\ UNCHANGED <<productPhoto, styleMode>>
    /\ UNCHANGED resultVars
    /\ UNCHANGED urlVars
    /\ UNCHANGED <<mounted, pending, outcomes>>
    /\ lastOp' = Op("other")
    /\ Commit

\* ------------------------------------------------------------ style panel
\* the two style mode toggles
SetStyleMode(m) ==
    /\ Interactive
    /\ m # styleMode
    /\ styleMode' = m
    /\ UNCHANGED <<productPhoto, referencePhoto, selectedPreset>>
    /\ UNCHANGED resultVars
    /\ UNCHANGED urlVars
    /\ UNCHANGED <<mounted, pending, outcomes, files>>
    /\ lastOp' = Op("other")
    /\ Commit

HandleSetSelectedPresetKeepsReference(id) ==
    /\ selectedPreset' = id
    /\ UNCHANGED referencePhoto

HandleSetSelectedPreset(id) ==
    /\ selectedPreset' = id
    /\ referencePhoto' = IF styleMode = "preset" THEN Null ELSE referencePhoto

\* a StylePresetCard of the preset grid, rendered in preset mode and
\* disabled while loading
ClickPresetCard(id) ==
    /\ Interactive
    /\ styleMode = "preset"
    /\ ~isLoading
    /\ HandleSetSelectedPreset(id)
    /\ UNCHANGED <<productPhoto, styleMode>>
    /\ UNCHANGED resultVars
    /\ UNCHANGED urlVars
    /\ UNCHANGED <<mounted, pending, outcomes, files>>
    /\ lastOp' = Op("other")
    /\ Commit

\* ------------------------------------------------------------- generation
\* the arguments of the generateStyledPhotos call; mode is the styleMode the
\* call was made in
RequestArgsUnselected(id) ==
    [id |-> id, product |-> productPhoto, reference |-> referencePhoto,
     preset |-> selectedPreset, mode |-> styleMode]

RequestArgs(id) ==
    [id |-> id,
     product |-> productPhoto,
     reference |-> IF styleMode = "reference" THEN referencePhoto ELSE Null,
     preset |-> IF styleMode = "preset" THEN selectedPreset ELSE Null,
     mode |-> styleMode]

HandleGenerateNoReturn ==
    /\ Len(outcomes) < MaxGen
    /\ isLoading' = TRUE
    /\ error' = IF productPhoto = Null THEN PleaseUpload ELSE NoError
    /\ generatedImages' = <<>>
    /\ statusMessage' = Generating
    /\ pending' = pending \cup {RequestArgs(Len(outcomes) + 1)}
    /\ outcomes' = Append(outcomes, "pending")
    /\ UNCHANGED photoVars
    /\ UNCHANGED urlVars
    /\ UNCHANGED <<mounted, files>>
    /\ lastOp' = Op("handleGenerate")
    /\ Commit

HandleGenerateKeepsImages ==
    /\ IF productPhoto = Null
       THEN /\ error' = PleaseUpload
            /\ UNCHANGED <<isLoading, generatedImages, statusMessage>>
            /\ UNCHANGED <<pending, outcomes>>
       ELSE /\ Len(outcomes) < MaxGen
            /\ isLoading' = TRUE
            /\ error' = NoError
            /\ UNCHANGED generatedImages
            /\ statusMessage' = Generating
            /\ pending' = pending \cup {RequestArgs(Len(outcomes) + 1)}
            /\ outcomes' = Append(outcomes, "pending")
    /\ UNCHANGED photoVars
    /\ UNCHANGED urlVars
    /\ UNCHANGED <<mounted, files>>
    /\ lastOp' = Op("handleGenerate")
    /\ Commit

\* handleGenerate up to its await
HandleGenerate ==
    /\ IF productPhoto = Null
       THEN /\ error' = PleaseUpload
            /\ UNCHANGED <<isLoading, generatedImages, statusMessage>>
            /\ UNCHANGED <<pending, outcomes>>
       ELSE /\ Len(outcomes) < MaxGen
            /\ isLoading' = TRUE
            /\ error' = NoError
            /\ generatedImages' = <<>>
            /\ statusMessage' = Generating
            /\ pending' = pending \cup {RequestArgs(Len(outcomes) + 1)}
            /\ outcomes' = Append(outcomes, "pending")
    /\ UNCHANGED photoVars
    /\ UNCHANGED urlVars
    /\ UNCHANGED <<mounted, files>>
    /\ lastOp' = Op("handleGenerate")
    /\ Commit

GenerateDisabledOnlyWithoutPhoto == productPhoto = Null

\* the Generate Photos button's disabled attribute
GenerateDisabled == isLoading \/ productPhoto = Null

ClickGenerate ==
    /\ Interactive
    /\ ~GenerateDisabled
    /\ HandleGenerate

\* handleGenerate called with no product photo, the call the disabled button
\* keeps the UI from making
CallHandleGenerate ==
    /\ Interactive
    /\ productPhoto = Null
    /\ HandleGenerate

RECURSIVE Reverse(_)
Reverse(s) == IF s = <<>> THEN <<>> ELSE Append(Reverse(Tail(s)), Head(s))

ResolveReversed(r, images) ==
    /\ r \in pending
    /\ generatedImages' = Reverse(images)
    /\ statusMessage' = DoneMessage
    /\ isLoading' = FALSE
    /\ UNCHANGED error
    /\ pending' = pending \ {r}
    /\ outcomes' = [outcomes EXCEPT ![r.id] = "resolved"]
    /\ UNCHANGED photoVars
    /\ UNCHANGED urlVars
    /\ UNCHANGED <<mounted, files>>
    /\ lastOp' = [op |-> "resolve", id |-> r.id, images |-> images]
    /\ Commit

\* the call of r returns images: the rest of the try block, then finally
Resolve(r, images) ==
    /\ r \in pending
    /\ generatedImages' = images
    /\ statusMessage' = DoneMessage
    /\ isLoading' = FALSE
    /\ UNCHANGED error
    /\ pending' = pending \ {r}
    /\ outcomes' = [outcomes EXCEPT ![r.id] = "resolved"]
    /\ UNCHANGED photoVars
    /\ UNCHANGED urlVars
    /\ UNCHANGED <<mounted, files>>
    /\ lastOp' = [op |-> "resolve", id |-> r.id, images |-> images]
    /\ Commit

RejectWithoutFinally(r) ==
    /\ r \in pending
    /\ error' = GenerationFailed
    /\ statusMessage' = ""
    /\ UNCHANGED <<generatedImages, isLoading>>
    /\ pending' = pending \ {r}
    /\ outcomes' = [outcomes EXCEPT ![r.id] = "rejected"]
    /\ UNCHANGED photoVars
    /\ UNCHANGED urlVars
    /\ UNCHANGED <<mounted, files>>
    /\ lastOp' = [op |-> "reject", id |-> r.id, images |-> <<>>]
    /\ Commit

\* the call of r rejects: the catch block, then finally
Reject(r) ==
    /\ r \in pending
    /\ error' = GenerationFailed
    /\ statusMessage' = ""
    /\ isLoading' = FALSE
    /\ UNCHANGED generatedImages
    /\ pending' = pending \ {r}
    /\ outcomes' = [outcomes EXCEPT ![r.id] = "rejected"]
    /\ UNCHANGED photoVars
    /\ UNCHANGED urlVars
    /\ UNCHANGED <<mounted, files>>
    /\ lastOp' = [op |-> "reject", id |-> r.id, images |-> <<>>]
    /\ Commit

\* an outstanding call settles and its handler resumes
Settle == \E r \in pending : (\E images \in Responses : Resolve(r, images)) \/ Reject(r)

\* ---------------------------------------------------------- specifications
SelectProduct == \E f \in Selectable(productPhoto) : SelectProductPhoto(f)
SelectReference == \E f \in Selectable(referencePhoto) : SelectReferencePhoto(f)
ToggleStyleMode == \E m \in StyleModes : SetStyleMode(m)
SelectPreset == \E id \in Presets : ClickPresetCard(id)
ResolveCall == \E r \in pending : \E images \in Responses : Resolve(r, images)
RejectCall == \E r \in pending : Reject(r)

\* the component driven through its UI
Next ==
    \/ SelectProduct
    \/ SelectReference
    \/ ToggleStyleMode
    \/ SelectPreset
    \/ ClickGenerate
    \/ ResolveCall
    \/ RejectCall
    \/ RunEffects
    \/ Render
    \/ Unmount

Spec == Init /\ [][Next]_vars

\* every outstanding call eventually settles
LiveSpec == Spec /\ WF_vars(Settle)

\* handleGenerate also called directly with no product photo
NextHandler == Next \/ CallHandleGenerate

SpecHandler == Init /\ [][NextHandler]_vars

\* ------------------------------------------------------------------ claims
IsLive(u) == u \in 1 .. Len(urls) /\ urls[u].revokes = 0

\* C1: a handleGenerate step taken while productPhoto is null sets error to
\* the upload message, makes no generateStyledPhotos call, and leaves
\* isLoading, generatedImages and statusMessage as they were.
C1_NoPhotoNoCall ==
    [][(lastOp'.op = "handleGenerate" /\ productPhoto = Null) =>
          /\ error' = PleaseUpload
          /\ pending' = pending
          /\ outcomes' = outcomes
          /\ isLoading' = isLoading
          /\ generatedImages' = generatedImages
          /\ statusMessage' = statusMessage]_vars

C1_Witness ==
    /\ lastOp.op = "handleGenerate"
    /\ productPhoto = Null
    /\ error = PleaseUpload
    /\ generatedImages # <<>>
    /\ statusMessage = DoneMessage

\* C2: right after the call of a generation rejects, error is the failure
\* message, statusMessage is empty and generatedImages is empty, also when an
\* earlier generation had succeeded.
C2_FailureState ==
    lastOp.op = "reject" =>
        /\ error = GenerationFailed
        /\ statusMessage = ""
        /\ generatedImages = <<>>

C2_Witness ==
    /\ lastOp.op = "reject"
    /\ \E i \in 1 .. Len(outcomes) : i < lastOp.id /\ outcomes[i] = "resolved"
    /\ generatedImages = <<>>

\* C3: right after the call of a generation returns, generatedImages is the
\* returned list, element for element, statusMessage is the done message and
\* error is null.
C3_SuccessState ==
    lastOp.op = "resolve" =>
        /\ generatedImages = lastOp.images
        /\ statusMessage = DoneMessage
        /\ error = NoError

C3_Witness ==
    /\ lastOp.op = "resolve"
    /\ Len(generatedImages) = 2
    /\ generatedImages[1] # generatedImages[2]
    /\ error = NoError

\* C4: isLoading is true only while a call is outstanding, and whenever it is
\* true it becomes false again, given that outstanding calls settle.
C4_LoadingEnds ==
    /\ [](isLoading => pending # {})
    /\ (isLoading ~> ~isLoading)

C4_Witness ==
    /\ ~isLoading
    /\ \E i \in 1 .. Len(outcomes) : outcomes[i] = "resolved"
    /\ \E i \in 1 .. Len(outcomes) : outcomes[i] = "rejected"

\* C5: every generateStyledPhotos call has a product photo; its reference
\* photo is null unless it was made in reference mode and its preset is null
\* unless it was made in preset mode, so never both are given.
C5_RequestArgs ==
    \A r \in pending :
        /\ r.product # Null
        /\ r.reference # Null => r.mode = "reference"
        /\ r.preset # Null => r.mode = "preset"
        /\ ~(r.reference # Null /\ r.preset # Null)

C5_Witness ==
    /\ lastOp.op = "handleGenerate"
    /\ referencePhoto # Null
    /\ \E r \in pending : r.mode = "preset" /\ r.reference = Null /\ r.product # Null

\* C6: selectedPreset and referencePhoto are never both non-null.
C6_PresetXorReference == ~(selectedPreset # Null /\ referencePhoto # Null)

C6_Witness ==
    /\ selectedPreset # Null
    /\ referencePhoto = Null
    /\ \E u \in 1 .. Len(urls) : urls[u].slot = "reference"

\* C7: no object URL is revoked twice; while mounted the unrevoked URLs of a
\* slot are exactly the one its effect last created (none once the effect has
\* run for a cleared file), so at most one per slot; after unmount every
\* created URL has been revoked exactly once.
C7_UrlLifecycle ==
    /\ \A u \in 1 .. Len(urls) : urls[u].revokes <= 1
    /\ Cardinality(Live("product")) <= 1
    /\ Cardinality(Live("reference")) <= 1
    /\ mounted => /\ Live("product") = {productEffect.url} \ {Null}
                  /\ Live("reference") = {referenceEffect.url} \ {Null}
    /\ (mounted /\ productPhoto = Null /\ productEffect.dep = Null) => Live("product") = {}
    /\ (mounted /\ referencePhoto = Null /\ referenceEffect.dep = Null) => Live("reference") = {}
    /\ ~mounted => \A u \in 1 .. Len(urls) : urls[u].revokes = 1

C7_Witness ==
    /\ ~mounted
    /\ \E u, v \in 1 .. Len(urls) : u # v /\ urls[u].slot = urls[v].slot
    /\ \E u \in 1 .. Len(urls) : urls[u].slot = "reference"

\* C8: driven through the UI, at most one call is outstanding, the button is
\* disabled while it is, and no outstanding call is older than a settled one.
C8_OneOutstanding ==
    /\ Cardinality(pending) <= 1
    /\ pending # {} => GenerateDisabled
    /\ \A r \in pending : \A i \in 1 .. Len(outcomes) :
           outcomes[i] # "pending" => i < r.id

C8_Witness ==
    /\ pending # {}
    /\ \E i \in 1 .. Len(outcomes) : outcomes[i] # "pending"
    /\ productPhoto # Null
    /\ isLoading

\* C9: the preview URL the last commit handed to a FileUpload is null or an
\* object URL that has not been revoked.
C9_PreviewsLive ==
    mounted =>
        /\ rendered.product = Null \/ IsLive(rendered.product)
        /\ rendered.reference = Null \/ IsLive(rendered.reference)
====
